---- MODULE Spec2Model ----
(***************************************************************************)
(* Trend cache and aggregator of cyber-monk-backend:                       *)
(*   src/services/trends-service.js   (cache, getTrends, refreshTrends)    *)
(*   src/services/youtube-crawler.js  (crawl, keyword extraction, merge)   *)
(*   data/sources store               (registry of tracked sources)        *)
(*   routes/sources.js                (registry mutations over HTTP)       *)
(*                                                                         *)
(* Node runs one handler at a time; a handler gives up control only at an  *)
(* await.  Each action below is one run of code from a resumption point to *)
(* the next real suspension (the fetch inside crawlYouTubeChannel or the   *)
(* 200 ms pacing timer) or to the end of the call.                         *)
(***************************************************************************)
EXTENDS Integers, Sequences, FiniteSets, TLC

(***************************************************************************)
(* Bounds of the model                                                     *)
(***************************************************************************)
MaxTasks == 2        \* refreshTrends invocations that may be in flight at once
MaxEpoch == 1        \* the clock visits k*TTL-1, k*TTL, k*TTL+1 for k <= MaxEpoch
MaxId    == 4        \* ids the registry hands out (nextId starts at 4)
MaxPasses == 3       \* refreshTrends invocations in a behaviour of Spec
MaxMergePasses == 1  \* refreshTrends invocations in a behaviour of SpecMerge
MaxEdits  == 2       \* registry mutations in a behaviour of SpecMerge
MaxFaultPasses == 3  \* refreshTrends invocations in a behaviour of SpecFault
MaxLivePasses == 2   \* refreshTrends invocations in a behaviour of SpecLive
MaxRoutePasses == 2  \* refreshTrends invocations in a behaviour of SpecRoutes

(***************************************************************************)
(* Program constants                                                       *)
(***************************************************************************)
DEFAULT_TTL_MS == 10 * 60 * 1000
TOP_N          == 20
MaxKeywordsPerVideo == 10
MaxVideos      == 20

\* null where an object is expected, and where a string is expected
NULL    == [null |-> TRUE]
NullStr == "null"

(***************************************************************************)
(* Generic sequence helpers                                                *)
(***************************************************************************)
Range(s) == {s[i] : i \in DOMAIN s}

Take(s, n) == SubSeq(s, 1, IF Len(s) < n THEN Len(s) ELSE n)

RECURSIVE Flatten(_)
Flatten(ss) == IF ss = <<>> THEN <<>> ELSE Head(ss) \o Flatten(Tail(ss))

RECURSIVE SumSeq(_)
SumSeq(s) == IF s = <<>> THEN 0 ELSE Head(s) + SumSeq(Tail(s))

\* positions of the elements of s that satisfy Test, in order
Count(s, Test(_)) == Cardinality({i \in DOMAIN s : Test(s[i])})

(***************************************************************************)
(* Strings.  TLC has no string functions, so the ones the code uses are    *)
(* tabulated over the words that occur in the model.                       *)
(***************************************************************************)
\* String.prototype.toLowerCase
toLowerCase(w) ==
  CASE w = "AI"      -> "ai"
    [] w = "Code"    -> "code"
    [] w = "CODE"    -> "code"
    [] w = "Review"  -> "review"
    [] w = "Startup" -> "startup"
    [] w = "DATA"    -> "data"
    [] w = "Growth"  -> "growth"
    [] w = "TRUE"    -> "true"
    [] w = "True"    -> "true"
    [] w = "FALSE"   -> "false"
    [] OTHER         -> w

\* word.length
StrLen(w) ==
  CASE w \in {"ai", "AI", "vs", "ml"} -> 2
    [] w \in {"api", "app", "web", "seo", "roi", "top", "new", "xyz"} -> 3
    [] OTHER -> 4

\* keys that a JavaScript object enumerates first, in ascending numeric order
IndexKeyValue(k) ==
  CASE k = "2024" -> 2024
    [] k = "2025" -> 2025
    [] OTHER      -> -1

IsIndexKey(k) == IndexKeyValue(k) >= 0

\* url.includes(...)
UrlYouTube100x == "https://youtube.com/@100xengineers"
UrlYouTubeTech == "https://youtube.com/@techchannel"
UrlRss         == "https://airesearch.blog/feed"
UrlTwitter     == "https://twitter.com/dev"
UrlBlog        == "https://blog.example.com"

IncludesYouTubeCom(url)   == url \in {UrlYouTube100x, UrlYouTubeTech}
Includes100xEngineers(url) == url = UrlYouTube100x

(***************************************************************************)
(* youtube-crawler.js: keyword taxonomy                                    *)
(***************************************************************************)
trendKeywords ==
  << [category |-> "technology",
      keywords |-> <<"ai", "machine learning", "code", "programming", "software",
                     "development", "tech", "api", "database", "cloud",
                     "javascript", "python", "react", "node", "web", "mobile",
                     "app", "system", "architecture", "devops", "cybersecurity",
                     "blockchain", "data", "analytics", "automation">>],
     [category |-> "business",
      keywords |-> <<"startup", "entrepreneur", "business", "marketing", "growth",
                     "strategy", "revenue", "funding", "investment", "scale",
                     "product", "market", "customer", "sales", "monetization",
                     "profit", "roi", "conversion", "acquisition">>],
     [category |-> "content",
      keywords |-> <<"content", "creator", "video", "youtube", "social media",
                     "influencer", "brand", "engagement", "audience", "viral",
                     "trending", "seo", "optimization", "analytics">>],
     [category |-> "general",
      keywords |-> <<"tutorial", "guide", "tips", "how to", "best", "top",
                     "review", "comparison", "vs", "new", "latest", "update",
                     "release", "2024", "2025", "future", "trend", "prediction">>] >>

allKeywords == Range(Flatten([i \in DOMAIN trendKeywords |-> trendKeywords[i].keywords]))

\* category.charAt(0).toUpperCase() + category.slice(1)
Capitalize(c) ==
  CASE c = "technology" -> "Technology"
    [] c = "business"   -> "Business"
    [] c = "content"    -> "Content"
    [] c = "general"    -> "General"
    [] OTHER            -> c

categorizeKeyword(keyword) ==
  LET hits == {i \in DOMAIN trendKeywords :
                 toLowerCase(keyword) \in Range(trendKeywords[i].keywords)}
  IN IF hits = {} THEN "General"
     ELSE Capitalize(trendKeywords[CHOOSE i \in hits : \A j \in hits : i <= j].category)

(***************************************************************************)
(* youtube-crawler.js: extractKeywords                                     *)
(* A text is modelled as the sequence of its words after the split; the    *)
(* words keep the case they have in the feed.                              *)
(***************************************************************************)
RECURSIVE KeepKeywords(_, _)
KeepKeywords(words, keywords) ==
  IF words = <<>> THEN keywords
  ELSE LET word == Head(words)
       IN KeepKeywords(Tail(words),
            IF word \in allKeywords /\ word \notin Range(keywords)
              THEN Append(keywords, word) ELSE keywords)

extractKeywords(text) ==
  IF text = <<>> THEN <<>>
  ELSE LET lowered == [i \in DOMAIN text |-> toLowerCase(text[i])]
           words   == SelectSeq(lowered, LAMBDA w : StrLen(w) > 2)
       IN Take(KeepKeywords(words, <<>>), MaxKeywordsPerVideo)

(***************************************************************************)
(* JavaScript object and Array.prototype.sort semantics                    *)
(***************************************************************************)
\* insert an index key into an ascending sequence of index keys
RECURSIVE InsertIndexKey(_, _)
InsertIndexKey(keys, k) ==
  IF keys = <<>> THEN <<k>>
  ELSE IF IndexKeyValue(k) < IndexKeyValue(Head(keys)) THEN <<k>> \o keys
  ELSE <<Head(keys)>> \o InsertIndexKey(Tail(keys), k)

RECURSIVE SortIndexKeys(_)
SortIndexKeys(keys) ==
  IF keys = <<>> THEN <<>> ELSE InsertIndexKey(SortIndexKeys(Tail(keys)), Head(keys))

\* Order in which Object.entries / Object.values enumerate properties that
\* were created in the order insertion: integer-like keys ascending, then
\* the other keys in creation order.
ObjectKeyOrder(insertion) ==
  SortIndexKeys(SelectSeq(insertion, IsIndexKey))
    \o SelectSeq(insertion, LAMBDA k : ~IsIndexKey(k))

\* Array.prototype.sort((a, b) => b.mentions - a.mentions): stable
RECURSIVE InsertByMentions(_, _)
InsertByMentions(sorted, r) ==
  IF sorted = <<>> THEN <<r>>
  ELSE IF r.mentions > Head(sorted).mentions THEN <<r>> \o sorted
  ELSE <<Head(sorted)>> \o InsertByMentions(Tail(sorted), r)

RECURSIVE SortByMentionsFrom(_, _)
SortByMentionsFrom(sorted, rest) ==
  IF rest = <<>> THEN sorted
  ELSE SortByMentionsFrom(InsertByMentions(sorted, Head(rest)), Tail(rest))

SortByMentionsDesc(records) == SortByMentionsFrom(<<>>, records)

(***************************************************************************)
(* youtube-crawler.js: extractTrendingKeywords                             *)
(* Math.random is a generator started from a seed: the i-th record of a    *)
(* crawl draws its growth and volume from the ends of the ranges the code  *)
(* uses (50..249 percent, 5000..54999).                                    *)
(***************************************************************************)
Seeds == {0, 1}
GrowthValues == <<"+50%", "+249%">>
VolumeValues == <<5000, 54999>>
RandomGrowth(seed, i) == GrowthValues[((seed + i) % 2) + 1]
RandomVolume(seed, i) == VolumeValues[((seed + i + (i \div 2)) % 2) + 1]

\* keys of keywordCounts in creation order
RECURSIVE FirstSeen(_, _)
FirstSeen(keywords, seen) ==
  IF keywords = <<>> THEN seen
  ELSE FirstSeen(Tail(keywords),
         IF Head(keywords) \in Range(seen) THEN seen ELSE Append(seen, Head(keywords)))

extractTrendingKeywords(crawlData, seed) ==
  LET occurrences == Flatten([i \in DOMAIN crawlData.videos |-> crawlData.videos[i].keywords])
      keys        == ObjectKeyOrder(FirstSeen(occurrences, <<>>))
      count(k)    == Cardinality({i \in DOMAIN occurrences : occurrences[i] = k})
      trends      == [i \in DOMAIN keys |->
                        [keyword  |-> keys[i],
                         mentions |-> count(keys[i]),
                         growth   |-> RandomGrowth(seed, i),
                         volume   |-> RandomVolume(seed, i),
                         category |-> categorizeKeyword(keys[i])]]
  IN SortByMentionsDesc(trends)

(***************************************************************************)
(* youtube-crawler.js: combineTrends                                       *)
(***************************************************************************)
\* a merge that keeps the first record of a keyword and adds nothing to it
RECURSIVE CombineIntoKeepFirst(_, _, _)
CombineIntoKeepFirst(keys, byKey, trends) ==
  IF trends = <<>> THEN [keys |-> keys, byKey |-> byKey]
  ELSE LET trend == Head(trends)
           k     == trend.keyword
       IN IF k \in DOMAIN byKey
            THEN CombineIntoKeepFirst(keys, byKey, Tail(trends))
            ELSE CombineIntoKeepFirst(Append(keys, k), byKey @@ (k :> trend), Tail(trends))

\* a merge in which a later record of a keyword replaces the earlier one
RECURSIVE CombineIntoKeepLast(_, _, _)
CombineIntoKeepLast(keys, byKey, trends) ==
  IF trends = <<>> THEN [keys |-> keys, byKey |-> byKey]
  ELSE LET trend == Head(trends)
           k     == trend.keyword
       IN IF k \in DOMAIN byKey
            THEN CombineIntoKeepLast(keys, [byKey EXCEPT ![k] = trend], Tail(trends))
            ELSE CombineIntoKeepLast(Append(keys, k), byKey @@ (k :> trend), Tail(trends))

\* combinedKeywords after the two nested forEach loops: the keys in creation
\* order and the record stored under each key
RECURSIVE CombineInto(_, _, _)
CombineInto(keys, byKey, trends) ==
  IF trends = <<>> THEN [keys |-> keys, byKey |-> byKey]
  ELSE LET trend == Head(trends)
           k     == trend.keyword
       IN IF k \in DOMAIN byKey
            THEN CombineInto(keys,
                   [byKey EXCEPT ![k] = [@ EXCEPT !.mentions = @ + trend.mentions,
                                                  !.volume   = @ + trend.volume]],
                   Tail(trends))
            ELSE CombineInto(Append(keys, k), byKey @@ (k :> trend), Tail(trends))

NoRecords == [k \in {} |-> 0]

\* a merge that sorts and cuts the records without combining them
combineTrendsNoMerge(trendsArrays) ==
  Take(SortByMentionsDesc(Flatten(trendsArrays)), TOP_N)

\* a merge that returns every combined record
combineTrendsUncut(trendsArrays) ==
  LET combined == CombineInto(<<>>, NoRecords, Flatten(trendsArrays))
      order    == ObjectKeyOrder(combined.keys)
  IN SortByMentionsDesc([i \in DOMAIN order |-> combined.byKey[order[i]]])

\* a merge that cuts the combined records without sorting them
combineTrendsUnsorted(trendsArrays) ==
  LET combined == CombineInto(<<>>, NoRecords, Flatten(trendsArrays))
      order    == ObjectKeyOrder(combined.keys)
  IN Take([i \in DOMAIN order |-> combined.byKey[order[i]]], TOP_N)

combineTrends(trendsArrays) ==
  LET combined == CombineInto(<<>>, NoRecords, Flatten(trendsArrays))
      order    == ObjectKeyOrder(combined.keys)
      values   == [i \in DOMAIN order |-> combined.byKey[order[i]]]
  IN Take(SortByMentionsDesc(values), TOP_N)

(***************************************************************************)
(* youtube-crawler.js: crawlYouTubeChannel and getMockChannelData          *)
(***************************************************************************)
\* RSS feeds the fetch may deliver: each entry is the word sequence of
\* entry.title + ' ' + media:description
FeedA == << <<"AI", "Code", "Review", "2025">>,
            <<"code", "Startup", "xyz", "code">> >>
FeedB == << <<"tech", "api", "database", "cloud", "javascript", "python",
              "react", "node", "web", "mobile", "app", "system">>,
            <<"Startup", "Growth", "DATA", "vs">> >>

\* what happens to the request of line 102: it throws or answers !ok, the
\* feed has no entry, or the feed is delivered
FetchOutcomes == {"error", "empty", "feedA", "feedB"}

\* a crawl's input: the outcome of its fetch and the seed of its random draws
CrawlInputs ==
  { [outcome |-> "error", seed |-> 0], [outcome |-> "empty", seed |-> 1],
    [outcome |-> "feedA", seed |-> 1], [outcome |-> "feedB", seed |-> 0] }

\* the crawl inputs of the behaviours that exercise the cache
FewCrawlInputs == { [outcome |-> "error", seed |-> 0], [outcome |-> "feedA", seed |-> 1] }

FeedOf(outcome) ==
  CASE outcome = "feedA" -> FeedA
    [] outcome = "feedB" -> FeedB
    [] OTHER             -> <<>>

MockVideos100x ==
  << [keywords |-> <<"ai", "generated", "gaming", "technology", "rdr2", "gta6">>],
     [keywords |-> <<"startup", "business", "plan", "2025", "template", "guide">>],
     [keywords |-> <<"code", "review", "engineering", "development", "practices", "team">>],
     [keywords |-> <<"api", "nodejs", "express", "scalable", "backend", "programming">>],
     [keywords |-> <<"machine learning", "ai", "software", "engineering", "ml", "data">>] >>

MockVideosGeneric ==
  << [keywords |-> <<"tech", "trends", "2025", "developer", "technology">>] >>

getMockChannelData(youtubeUrl) ==
  LET mockVideos == IF Includes100xEngineers(youtubeUrl)
                      THEN MockVideos100x ELSE MockVideosGeneric
  IN [success |-> TRUE,
      data    |-> [totalVideos |-> Len(mockVideos),
                   videos      |-> mockVideos,
                   isMockData  |-> TRUE]]

crawlYouTubeChannel(youtubeUrl, outcome) ==
  IF outcome = "error" THEN getMockChannelData(youtubeUrl)
  ELSE LET entry == FeedOf(outcome)
       IN IF entry = <<>> THEN getMockChannelData(youtubeUrl)
          ELSE LET entries == Take(entry, MaxVideos)
                   videos  == [i \in DOMAIN entries |->
                                 [keywords |-> extractKeywords(entries[i])]]
               IN [success |-> TRUE,
                   data    |-> [totalVideos |-> Len(videos),
                                videos      |-> videos,
                                isMockData  |-> FALSE]]

(***************************************************************************)
(* trends-service.js: cache, isStale, shapeResponse                        *)
(***************************************************************************)
\* one key for both variants
CacheKeyShared(sourceBased) == "false"

\* String(!!sourceBased)
CacheKey(sourceBased) == IF sourceBased THEN "true" ELSE "false"

CacheKeys == {"true", "false"}

\* every entry treated as stale, whatever its age
isStaleAlways(entry, t) == TRUE

\* staleness with the boundary included
isStaleInclusive(entry, t) ==
  IF entry = NULL THEN TRUE
  ELSE t - entry.updatedAt >= (IF entry.ttlMs # 0 THEN entry.ttlMs ELSE DEFAULT_TTL_MS)

isStale(entry, t) ==
  IF entry = NULL THEN TRUE
  ELSE t - entry.updatedAt > (IF entry.ttlMs # 0 THEN entry.ttlMs ELSE DEFAULT_TTL_MS)

\* new Date(ms).toISOString()
toISOString(ms) == ToString(ms)

\* a shaping that reports the summary's keyword count from the wrong field
shapeResponseWrongCount(trendsArray, meta, t) ==
  LET shapedTrends == [i \in DOMAIN trendsArray |->
                         [keyword  |-> trendsArray[i].keyword,
                          growth   |-> trendsArray[i].growth,
                          category |-> trendsArray[i].category,
                          mentions |-> trendsArray[i].mentions]]
  IN [trends           |-> shapedTrends,
      trends_count     |-> Len(shapedTrends),
      analysis_summary |->
        [sources_analyzed         |-> meta.sourcesAnalyzed,
         total_keywords_extracted |-> meta.sourcesAnalyzed,
         last_updated             |-> toISOString(IF meta.lastUpdated # 0
                                                    THEN meta.lastUpdated ELSE t),
         real_data_sources        |-> meta.realDataSources]]

shapeResponse(trendsArray, meta, t) ==
  LET shapedTrends == [i \in DOMAIN trendsArray |->
                         [keyword  |-> trendsArray[i].keyword,
                          growth   |-> trendsArray[i].growth,
                          category |-> trendsArray[i].category,
                          mentions |-> trendsArray[i].mentions]]
  IN [trends           |-> shapedTrends,
      trends_count     |-> Len(shapedTrends),
      analysis_summary |->
        [sources_analyzed         |-> meta.sourcesAnalyzed,
         total_keywords_extracted |-> Len(shapedTrends),
         last_updated             |-> toISOString(IF meta.lastUpdated # 0
                                                    THEN meta.lastUpdated ELSE t),
         real_data_sources        |-> meta.realDataSources]]

(***************************************************************************)
(* State                                                                   *)
(***************************************************************************)
VARIABLES
  sources,   \* data/sources: the array `sources`
  nextId,    \* data/sources: `nextId`
  cache,     \* trends-service.js: `cache`, one entry or null per key
  now,       \* Date.now(), in milliseconds
  tasks,     \* the refreshTrends invocations suspended at an await
  ev,        \* what the last step returned to its caller: the call, its result,
             \* the entry and instant it read the cache at (line 130) when the
             \* result was built from the cache, the pass that ended in the step
  budget     \* passes and registry mutations the behaviour may still start

vars == <<sources, nextId, cache, now, tasks, ev, budget>>

Slots == 1..MaxTasks

Idle   == [pc |-> "idle"]
NoCall == [op |-> "none"]
NoEvent == [op |-> "none", call |-> NoCall, result |-> NULL, read |-> NULL, pass |-> NULL]

\* data/sources: the functions the store exports
StoreExports == {"getAll", "getById", "create", "update", "deleteById", "updateStatus"}

InitialSources ==
  << [id |-> 1, name |-> "Tech Channel", type |-> "YouTube", url |-> UrlYouTubeTech,
      status |-> "active", lastCrawled |-> "2024-01-15T10:30:00Z"],
     [id |-> 2, name |-> "AI Research Blog", type |-> "RSS", url |-> UrlRss,
      status |-> "active", lastCrawled |-> "2024-01-16T08:15:00Z"],
     [id |-> 3, name |-> "Developer Twitter", type |-> "Twitter", url |-> UrlTwitter,
      status |-> "paused", lastCrawled |-> "2024-01-14T16:45:00Z"] >>

InitialNextId == 4

\* instants the clock may show: one TTL after another, each with the
\* millisecond before and after it
ClockPoints == {(k + 1) * DEFAULT_TTL_MS + j : k \in 1..MaxEpoch, j \in {-1, 0, 1}}

Start ==
  /\ sources = InitialSources
  /\ nextId = InitialNextId
  /\ cache = [k \in CacheKeys |-> NULL]
  /\ now = DEFAULT_TTL_MS
  /\ tasks = [s \in Slots |-> Idle]
  /\ ev = NoEvent

Init == Start /\ budget = [passes |-> MaxPasses, edits |-> 0]

InitMerge == Start /\ budget = [passes |-> MaxMergePasses, edits |-> MaxEdits]

InitFault == Start /\ budget = [passes |-> MaxFaultPasses, edits |-> 0]

InitLive == Start /\ budget = [passes |-> MaxLivePasses, edits |-> 0]

InitRoutes == Start /\ budget = [passes |-> MaxRoutePasses, edits |-> 0]

(***************************************************************************)
(* trends-service.js: crawlAndExtract                                      *)
(***************************************************************************)
MockTrendsRSS ==
  << [keyword |-> "technology", mentions |-> 5, growth |-> "+45%", volume |-> 12000, category |-> "Technology"],
     [keyword |-> "innovation", mentions |-> 3, growth |-> "+62%", volume |-> 8500,  category |-> "Business"],
     [keyword |-> "research",   mentions |-> 4, growth |-> "+38%", volume |-> 9200,  category |-> "General"] >>

MockTrendsTwitter ==
  << [keyword |-> "ai",      mentions |-> 8, growth |-> "+123%", volume |-> 25000, category |-> "Technology"],
     [keyword |-> "startup", mentions |-> 4, growth |-> "+89%",  volume |-> 18000, category |-> "Business"],
     [keyword |-> "content", mentions |-> 6, growth |-> "+67%",  volume |-> 15000, category |-> "Content"] >>

SuccessResult(source, isMock, n) ==
  [source |-> source.name, type |-> source.type, status |-> "success",
   isMockData |-> isMock, trendsExtracted |-> n, error |-> NullStr]

FailedResult(source, error) ==
  [source |-> source.name, type |-> source.type, status |-> "failed",
   isMockData |-> FALSE, trendsExtracted |-> 0, error |-> error]

\* a pass that takes every source of the registry, whatever its status
NewPassUnfiltered(kind, call, sourceBased, registry) ==
  [pc           |-> "loop",
   kind         |-> kind,
   call         |-> call,
   sourceBased  |-> sourceBased,
   active       |-> registry,
   i            |-> 1,
   allTrends    |-> <<>>,
   crawlResults |-> <<>>,
   marked       |-> <<>>,
   fault        |-> "none"]

\* lines 39-43: the pass at the head of its loop
NewPass(kind, call, sourceBased, registry) ==
  [pc           |-> "loop",
   kind         |-> kind,
   call         |-> call,
   sourceBased  |-> sourceBased,
   active       |-> SelectSeq(registry, LAMBDA s : s.status = "active"),
   i            |-> 1,
   allTrends    |-> <<>>,
   crawlResults |-> <<>>,
   marked       |-> <<>>,
   fault        |-> "none"]

\* An exception may escape crawlAndExtract only from the two calls it makes
\* outside the try of line 46: sourcesData.getAll() (line 39, "enumerate")
\* and youtubeCrawler.combineTrends (line 94, "merge").
Faults == {"none", "enumerate", "merge"}

\* lines 39-43 of a pass in which the named call throws: when getAll throws
\* the pass has no snapshot and crawlAndExtract rejects at once
NewPassUnder(kind, call, sourceBased, registry, fault) ==
  IF fault = "enumerate"
    THEN [NewPass(kind, call, sourceBased, <<>>) EXCEPT !.fault = fault, !.pc = "rejected"]
    ELSE [NewPass(kind, call, sourceBased, registry) EXCEPT !.fault = fault]

\* a loop that stops one source early
LoopDoneEarly(t) == t.i >= Len(t.active)

\* line 45: the for-of loop has run out of sources
LoopDone(t) == t.i > Len(t.active)

\* line 47
IsCrawlable(source) == source.type = "YouTube" \/ IncludesYouTubeCom(source.url)

\* a catch that leaves the loop instead of going on with the next source
AfterSuccessAbort(t, source, trends, isMock) ==
  LET pushed == [t EXCEPT !.allTrends    = @ \o trends,
                          !.crawlResults = Append(@, SuccessResult(source, isMock, Len(trends)))]
  IN IF "updateLastCrawled" \in StoreExports
       THEN [pushed EXCEPT !.marked = Append(@, source.id), !.pc = "delay"]
       ELSE [pushed EXCEPT !.crawlResults =
                               Append(@, FailedResult(source, "sourcesData.updateLastCrawled is not a function")),
                           !.i  = Len(t.active) + 1,
                           !.pc = "loop"]

\* lines 51-60, 72-74, 81-83: the trends and the 'success' entry are pushed, then
\* sourcesData.updateLastCrawled is called.  When the store has no such
\* function the call throws a TypeError, which the catch of line 88 turns into
\* a 'failed' entry for the same source; the pacing delay of line 87 is skipped.
AfterSuccess(t, source, trends, isMock) ==
  LET pushed == [t EXCEPT !.allTrends    = @ \o trends,
                          !.crawlResults = Append(@, SuccessResult(source, isMock, Len(trends)))]
  IN IF "updateLastCrawled" \in StoreExports
       THEN [pushed EXCEPT !.marked = Append(@, source.id), !.pc = "delay"]
       ELSE [pushed EXCEPT !.crawlResults =
                               Append(@, FailedResult(source, "sourcesData.updateLastCrawled is not a function")),
                           !.i  = @ + 1,
                           !.pc = "loop"]

\* lines 45-91: run the loop from its head until the pass awaits the crawl
\* of a source ("crawl"), awaits the pacing timer ("delay") or leaves the
\* loop: to line 94 and on to the end ("finished"), or to the throw of
\* line 94 ("rejected")
RECURSIVE RunLoop(_)
RunLoop(t) ==
  IF t.pc # "loop" THEN t
  ELSE IF LoopDone(t)
         THEN [t EXCEPT !.pc = IF t.fault = "merge" THEN "rejected" ELSE "finished"]
  ELSE LET source == t.active[t.i]
       IN IF IsCrawlable(source) THEN [t EXCEPT !.pc = "crawl"]
          ELSE IF ~t.sourceBased /\ source.type = "RSS"
                 THEN RunLoop(AfterSuccess(t, source, MockTrendsRSS, TRUE))
          ELSE IF ~t.sourceBased /\ source.type = "Twitter"
                 THEN RunLoop(AfterSuccess(t, source, MockTrendsTwitter, TRUE))
          ELSE [t EXCEPT !.pc = "delay"]

\* lines 48-63: the crawl of the current source has returned
AfterCrawl(t, outcome, seed) ==
  LET source      == t.active[t.i]
      crawlResult == crawlYouTubeChannel(source.url, outcome)
  IN IF crawlResult.success
       THEN AfterSuccess(t, source, extractTrendingKeywords(crawlResult.data, seed),
                         crawlResult.data.isMockData)
       ELSE [t EXCEPT !.crawlResults = Append(@, FailedResult(source, NullStr)),
                      !.pc = "delay"]

\* line 87 has resolved: next iteration
AfterDelay(t) == [t EXCEPT !.i = @ + 1, !.pc = "loop"]

\* a result stamped by a clock that wraps around every two TTLs
PassResultWrapped(t, time) ==
  [trends |-> combineTrends(<<t.allTrends>>),
   meta   |-> [sourcesAnalyzed |-> Len(t.active),
               lastUpdated     |-> time % (2 * DEFAULT_TTL_MS),
               realDataSources |-> Count(t.crawlResults,
                                         LAMBDA r : r.status = "success" /\ ~r.isMockData),
               successCount    |-> Count(t.crawlResults, LAMBDA r : r.status = "success"),
               crawlResults    |-> t.crawlResults]]

\* a result that counts the sources active when the pass ends
PassResultCountsAtEnd(t, time) ==
  [trends |-> combineTrends(<<t.allTrends>>),
   meta   |-> [sourcesAnalyzed |-> Count(sources, LAMBDA src : src.status = "active"),
               lastUpdated     |-> time,
               realDataSources |-> Count(t.crawlResults,
                                         LAMBDA r : r.status = "success" /\ ~r.isMockData),
               successCount    |-> Count(t.crawlResults, LAMBDA r : r.status = "success"),
               crawlResults    |-> t.crawlResults]]

\* lines 93-108
PassResult(t, time) ==
  [trends |-> combineTrends(<<t.allTrends>>),
   meta   |-> [sourcesAnalyzed |-> Len(t.active),
               lastUpdated     |-> time,
               realDataSources |-> Count(t.crawlResults,
                                         LAMBDA r : r.status = "success" /\ ~r.isMockData),
               successCount    |-> Count(t.crawlResults, LAMBDA r : r.status = "success"),
               crawlResults    |-> t.crawlResults]]

(***************************************************************************)
(* trends-service.js: refreshTrends                                        *)
(***************************************************************************)
\* an entry that does not carry the time of its pass
NewEntryUnstamped(result) ==
  [data      |-> result.trends,
   updatedAt |-> 0,
   summary   |-> result.meta,
   ttlMs     |-> DEFAULT_TTL_MS]

\* lines 113-118
NewEntry(result) ==
  [data      |-> result.trends,
   updatedAt |-> result.meta.lastUpdated,
   summary   |-> result.meta,
   ttlMs     |-> DEFAULT_TTL_MS]

\* a write that keeps the previous entry when every source of the pass failed
WriteCacheUnlessAllFailed(c, sourceBased, entry) ==
  IF /\ c[CacheKey(sourceBased)] # NULL
     /\ entry.summary.sourcesAnalyzed > 0
     /\ Len(entry.summary.crawlResults) - entry.summary.successCount
          >= entry.summary.sourcesAnalyzed
    THEN c
    ELSE [c EXCEPT ![CacheKey(sourceBased)] = entry]

\* a write that makes the cache an object holding the new entry alone
WriteCacheAlone(c, sourceBased, entry) ==
  [k \in CacheKeys |-> IF k = CacheKey(sourceBased) THEN entry ELSE NULL]

\* line 119
WriteCache(c, sourceBased, entry) == [c EXCEPT ![CacheKey(sourceBased)] = entry]

\* lines 120-125
RefreshResponse(result, time) ==
  shapeResponse(result.trends,
                [sourcesAnalyzed |-> result.meta.sourcesAnalyzed,
                 lastUpdated     |-> result.meta.lastUpdated,
                 realDataSources |-> result.meta.realDataSources],
                time)

(***************************************************************************)
(* trends-service.js: getTrends                                            *)
(***************************************************************************)
\* a foreground refresh only on a miss
NeedsForegroundOnMiss(forceRefresh, entry) == entry = NULL

\* line 133
NeedsForeground(forceRefresh, entry) == forceRefresh \/ entry = NULL

\* no background refresh
NeedsBackgroundNever(stale, backgroundIfStale) == FALSE

\* a background refresh on every stale read, whatever the caller asked for
NeedsBackgroundOnStale(stale, backgroundIfStale) == stale

\* line 138
NeedsBackground(stale, backgroundIfStale) == stale /\ backgroundIfStale

\* lines 143-148
EntryResponse(entry, time) ==
  shapeResponse(entry.data,
                [sourcesAnalyzed |-> entry.summary.sourcesAnalyzed,
                 lastUpdated     |-> entry.updatedAt,
                 realDataSources |-> entry.summary.realDataSources],
                time)

(***************************************************************************)
(* Steps of a pass                                                         *)
(***************************************************************************)
FreeSlots == {s \in Slots : tasks[s].pc = "idle"}
FirstFree == CHOOSE s \in FreeSlots : \A r \in FreeSlots : s <= r

\* bounds of the model: a slot is free and the behaviour may start a pass
CanStart == FreeSlots # {} /\ budget.passes > 0

\* the registry's mark-crawled update (spec section 6), applied for the
\* calls of updateLastCrawled that returned during the step
MarkAll(registry, ids, time) ==
  [i \in DOMAIN registry |->
     IF registry[i].id \in Range(ids)
       THEN [registry[i] EXCEPT !.lastCrawled = toISOString(time)]
       ELSE registry[i]]

\* what the caller of a completed refreshTrends invocation receives
DoneEvent(t, result, time) ==
  [op     |-> (CASE t.kind = "fg"   -> "getTrends"
                 [] t.kind = "post" -> "refreshTrends"
                 [] OTHER           -> "background"),
   call   |-> t.call,
   result |-> RefreshResponse(result, time),
   read   |-> NULL,
   pass   |-> t]

\* a background rejection that reaches the caller of getTrends
RejectedEventSurfaced(t) ==
  [op     |-> (CASE t.kind = "post" -> "refreshTrendsRejected"
                 [] OTHER           -> "getTrendsRejected"),
   call   |-> t.call,
   result |-> NULL,
   read   |-> NULL,
   pass   |-> t]

\* what becomes of a refreshTrends invocation whose crawlAndExtract rejected:
\* the await of line 112 throws and refreshTrends rejects.  getTrends line 135
\* and the routes await it, so the rejection reaches the caller; the
\* rejection of a background invocation goes to the catch of line 140.
RejectedEvent(t) ==
  [op     |-> (CASE t.kind = "fg"   -> "getTrendsRejected"
                 [] t.kind = "post" -> "refreshTrendsRejected"
                 [] OTHER           -> "backgroundRejected"),
   call   |-> t.call,
   result |-> NULL,
   read   |-> NULL,
   pass   |-> t]

\* a rejected invocation that drops the entry of its key
CacheAfterThrowCleared(c, sourceBased) == [c EXCEPT ![CacheKey(sourceBased)] = NULL]

\* the cache after the await of line 112 has thrown: lines 113-119 are not
\* reached
CacheAfterThrow(c, sourceBased) == c

\* The pass t has run up to its next await or to its end.  At its end
\* refreshTrends builds the entry, replaces the cache entry of its key and
\* returns (lines 112-125, no await in between).  returned is what a caller
\* that does not await the pass has got back in this step, if there is one.
Land(slot, t, returned) ==
  /\ sources' = MarkAll(sources, t.marked, now)
  /\ IF t.pc = "finished"
       THEN LET result == PassResult(t, now)
            IN /\ cache' = WriteCache(cache, t.sourceBased, NewEntry(result))
               /\ tasks' = [tasks EXCEPT ![slot] = Idle]
               /\ ev' = IF returned = NoEvent THEN DoneEvent(t, result, now)
                                             ELSE [returned EXCEPT !.pass = t]
       ELSE IF t.pc = "rejected"
       THEN /\ cache' = CacheAfterThrow(cache, t.sourceBased)
            /\ tasks' = [tasks EXCEPT ![slot] = Idle]
            /\ ev' = IF returned = NoEvent THEN RejectedEvent(t)
                                          ELSE [returned EXCEPT !.pass = t]
       ELSE /\ cache' = cache
            /\ tasks' = [tasks EXCEPT ![slot] = t]
            /\ ev' = returned

\* a pass resumes when the crawl it awaits (line 48) returns
ResumeCrawl(slot, outcome, seed) ==
  /\ tasks[slot].pc = "crawl"
  /\ LET t == RunLoop(AfterCrawl([tasks[slot] EXCEPT !.marked = <<>>], outcome, seed))
     IN Land(slot, t, NoEvent)
  /\ UNCHANGED <<nextId, now, budget>>

\* The request of the crawl a pass awaits never settles: the fetch of
\* youtube-crawler.js line 102 (or the read of its body, line 107) is awaited
\* with no timeout and no abort signal, and crawlAndExtract line 48 awaits
\* the crawl with none either.  No code runs for the pass after this.
CrawlHangs(slot) ==
  /\ tasks[slot].pc = "crawl"
  /\ tasks' = [tasks EXCEPT ![slot].pc = "hung"]
  /\ ev' = NoEvent
  /\ UNCHANGED <<sources, nextId, cache, now, budget>>

\* a pass resumes when the pacing timer (line 87) fires
ResumeDelay(slot) ==
  /\ tasks[slot].pc = "delay"
  /\ LET t == RunLoop(AfterDelay([tasks[slot] EXCEPT !.marked = <<>>]))
     IN Land(slot, t, NoEvent)
  /\ UNCHANGED <<nextId, now, budget>>

(***************************************************************************)
(* Calls of the service                                                    *)
(***************************************************************************)
\* trends-service.js lines 128-149
GetTrendsUnder(sourceBased, forceRefresh, backgroundIfStale, fault) ==
  LET key   == CacheKey(sourceBased)
      entry == cache[key]
      stale == isStale(entry, now)
      call  == [op |-> "getTrends", sourceBased |-> sourceBased,
                forceRefresh |-> forceRefresh, backgroundIfStale |-> backgroundIfStale,
                hadEntry |-> entry # NULL]
  IN /\ IF NeedsForeground(forceRefresh, entry)
          THEN /\ CanStart
               /\ budget' = [budget EXCEPT !.passes = @ - 1]
               /\ LET t == RunLoop(NewPassUnder("fg", call, sourceBased, sources, fault))
                  IN Land(FirstFree, t, NoEvent)
          ELSE IF NeedsBackground(stale, backgroundIfStale)
          THEN /\ CanStart
               /\ budget' = [budget EXCEPT !.passes = @ - 1]
               /\ LET t == RunLoop(NewPassUnder("bg", call, sourceBased, sources, fault))
                      returned == [op |-> "getTrends", call |-> call,
                                   result |-> EntryResponse(entry, now),
                                   read |-> [entry |-> entry, at |-> now],
                                   pass |-> NULL]
                  IN Land(FirstFree, t, returned)
          ELSE /\ fault = "none"
               /\ ev' = [op |-> "getTrends", call |-> call,
                         result |-> EntryResponse(entry, now),
                         read |-> [entry |-> entry, at |-> now],
                         pass |-> NULL]
               /\ UNCHANGED <<sources, cache, tasks, budget>>
     /\ UNCHANGED <<nextId, now>>

\* getTrends when nothing throws outside the per-source try
GetTrends(sourceBased, forceRefresh, backgroundIfStale) ==
  GetTrendsUnder(sourceBased, forceRefresh, backgroundIfStale, "none")

\* trends-service.js lines 111-126, called by POST /analytics/refresh-trends
\* (routes/analytics.js line 55) and by scripts/test-trends.js line 16
RefreshTrendsUnder(sourceBased, fault) ==
  LET call == [op |-> "refreshTrends", sourceBased |-> sourceBased]
  IN /\ CanStart
     /\ budget' = [budget EXCEPT !.passes = @ - 1]
     /\ LET t == RunLoop(NewPassUnder("post", call, sourceBased, sources, fault))
        IN Land(FirstFree, t, NoEvent)
     /\ UNCHANGED <<nextId, now>>

\* refreshTrends when nothing throws outside the per-source try
RefreshTrends(sourceBased) == RefreshTrendsUnder(sourceBased, "none")

(***************************************************************************)
(* routes/analytics.js: the query string of POST /analytics/refresh-trends *)
(***************************************************************************)
\* req.query.source_based: absent from the URL (undefined), or the text
\* given for it
Absent == [present |-> FALSE, text |-> ""]
Given(text) == [present |-> TRUE, text |-> text]

QueryValues ==
  {Absent} \cup {Given(x) : x \in {"true", "TRUE", "True", "false", "FALSE", "1", ""}}

\* String(value)
StringOf(value) == IF value.present THEN value.text ELSE "undefined"

\* a coercion that compares without lowering the case
ModeOfQueryExact(value) == StringOf(value) = "true"

\* line 54: String(req.query.source_based).toLowerCase() === 'true'
ModeOfQuery(value) == toLowerCase(StringOf(value)) = "true"

\* lines 52-56: the handler coerces the mode and awaits refreshTrends
PostRefreshTrends(value) ==
  LET sourceBased == ModeOfQuery(value)
      call == [op |-> "refreshTrends", sourceBased |-> sourceBased, query |-> value,
               overFresh |-> ~isStale(cache[CacheKey(sourceBased)], now)]
  IN /\ CanStart
     /\ budget' = [budget EXCEPT !.passes = @ - 1]
     /\ LET t == RunLoop(NewPass("post", call, sourceBased, sources))
        IN Land(FirstFree, t, NoEvent)
     /\ UNCHANGED <<nextId, now>>

(***************************************************************************)
(* The registry (routes/sources.js over data/sources)                      *)
(***************************************************************************)
NewSourceInputs ==
  { [name |-> "100x Engineers", type |-> "YouTube", url |-> UrlYouTube100x],
    [name |-> NullStr,          type |-> "Blog",    url |-> UrlBlog] }

ValidStatuses == {"active", "paused", "error"}

\* data/sources create, behind POST /sources
CreateSource(sourceData) ==
  /\ budget.edits > 0
  /\ budget' = [budget EXCEPT !.edits = @ - 1]
  /\ nextId <= MaxId
  /\ sources' = Append(sources,
       [id |-> nextId,
        name |-> IF sourceData.name # NullStr THEN sourceData.name ELSE "Unnamed Source",
        type |-> sourceData.type, url |-> sourceData.url,
        status |-> "active", lastCrawled |-> NullStr])
  /\ nextId' = nextId + 1
  /\ ev' = NoEvent
  /\ UNCHANGED <<cache, now, tasks>>

\* data/sources updateStatus, behind PUT /sources/:id/status
UpdateStatus(id, status) ==
  /\ budget.edits > 0
  /\ budget' = [budget EXCEPT !.edits = @ - 1]
  /\ \E i \in DOMAIN sources :
       /\ sources[i].id = id
       /\ sources[i].status # status
       /\ sources' = [sources EXCEPT ![i].status = status]
  /\ ev' = NoEvent
  /\ UNCHANGED <<nextId, cache, now, tasks>>

\* data/sources deleteById, behind DELETE /sources/:id
DeleteSource(id) ==
  /\ budget.edits > 0
  /\ budget' = [budget EXCEPT !.edits = @ - 1]
  /\ \E i \in DOMAIN sources :
       /\ sources[i].id = id
       /\ sources' = SubSeq(sources, 1, i - 1) \o SubSeq(sources, i + 1, Len(sources))
  /\ ev' = NoEvent
  /\ UNCHANGED <<nextId, cache, now, tasks>>

(***************************************************************************)
(* Time                                                                    *)
(***************************************************************************)
Tick(t) ==
  /\ t > now
  /\ now' = t
  /\ ev' = NoEvent
  /\ UNCHANGED <<sources, nextId, cache, tasks, budget>>

(***************************************************************************)
(* Specification                                                           *)
(***************************************************************************)
\* the cache under calls on both keys, with the registry as constructed
Next ==
  \/ \E sb \in BOOLEAN, f \in BOOLEAN, bg \in BOOLEAN : GetTrends(sb, f, bg)
  \/ \E sb \in BOOLEAN : RefreshTrends(sb)
  \/ \E s \in Slots, c \in FewCrawlInputs : ResumeCrawl(s, c.outcome, c.seed)
  \/ \E s \in Slots : ResumeDelay(s)
  \/ \E t \in ClockPoints : Tick(t)

Spec == Init /\ [][Next]_vars

\* aggregation passes over a changing registry, at one instant
NextMerge ==
  \/ \E sb \in BOOLEAN, f \in BOOLEAN : GetTrends(sb, f, TRUE)
  \/ \E sb \in BOOLEAN : RefreshTrends(sb)
  \/ \E s \in Slots, c \in CrawlInputs : ResumeCrawl(s, c.outcome, c.seed)
  \/ \E s \in Slots : ResumeDelay(s)
  \/ \E d \in NewSourceInputs : CreateSource(d)
  \/ \E id \in 1..MaxId, st \in ValidStatuses : UpdateStatus(id, st)
  \/ \E id \in 1..MaxId : DeleteSource(id)

SpecMerge == InitMerge /\ [][NextMerge]_vars

\* the calls the HTTP layer makes, with exceptions that escape
\* crawlAndExtract
NextFault ==
  \/ \E sb \in BOOLEAN, f \in BOOLEAN, fault \in Faults : GetTrendsUnder(sb, f, TRUE, fault)
  \/ \E sb \in BOOLEAN, fault \in Faults : RefreshTrendsUnder(sb, fault)
  \/ \E s \in Slots, c \in FewCrawlInputs : ResumeCrawl(s, c.outcome, c.seed)
  \/ \E s \in Slots : ResumeDelay(s)
  \/ \E t \in ClockPoints : Tick(t)

SpecFault == InitFault /\ [][NextFault]_vars

\* the calls the HTTP layer makes, with crawls that may never return
NextLive ==
  \/ \E sb \in BOOLEAN, f \in BOOLEAN : GetTrends(sb, f, TRUE)
  \/ \E sb \in BOOLEAN : RefreshTrends(sb)
  \/ \E s \in Slots, c \in FewCrawlInputs : ResumeCrawl(s, c.outcome, c.seed)
  \/ \E s \in Slots : ResumeDelay(s)
  \/ \E s \in Slots : CrawlHangs(s)
  \/ \E t \in ClockPoints : Tick(t)

\* The event loop runs every callback that is due: a pacing timer that was
\* set fires, and the continuation of a crawl whose request settles runs.
Fairness ==
  \A s \in Slots :
    /\ WF_vars(ResumeDelay(s))
    /\ WF_vars(\E c \in FewCrawlInputs : ResumeCrawl(s, c.outcome, c.seed))

SpecLive == InitLive /\ [][NextLive]_vars /\ Fairness

\* POST /analytics/refresh-trends requests with any query value
NextRoutes ==
  \/ \E q \in QueryValues : PostRefreshTrends(q)
  \/ \E s \in Slots, c \in FewCrawlInputs : ResumeCrawl(s, c.outcome, c.seed)
  \/ \E s \in Slots : ResumeDelay(s)
  \/ \E t \in ClockPoints : Tick(t)

SpecRoutes == InitRoutes /\ [][NextRoutes]_vars

(***************************************************************************)
(* routes/analytics.js: what the HTTP client of the step's call receives   *)
(***************************************************************************)
\* sendError(res, 500, message)
ErrorBody(message) == [error |-> [code |-> "INTERNAL_ERROR", message |-> message]]

\* GET /analytics/trends (lines 23-39) and POST /analytics/refresh-trends
\* (lines 52-61): res.json(result), or the catch with sendError
HttpResponse(e) ==
  CASE e.op \in {"getTrends", "refreshTrends"} ->
         [status |-> 200, body |-> e.result]
    [] e.op = "getTrendsRejected" ->
         [status |-> 500, body |-> ErrorBody("Failed to retrieve trend data")]
    [] e.op = "refreshTrendsRejected" ->
         [status |-> 500, body |-> ErrorBody("Failed to refresh trends data")]
    [] OTHER -> NULL

(***************************************************************************)
(* Properties                                                              *)
(***************************************************************************)
\* the trend list of a response shows the records of data, in order
SameTrends(trends, data) ==
  /\ Len(trends) = Len(data)
  /\ \A i \in DOMAIN data :
       /\ trends[i].keyword  = data[i].keyword
       /\ trends[i].growth   = data[i].growth
       /\ trends[i].category = data[i].category
       /\ trends[i].mentions = data[i].mentions

\* the step returned from a getTrends call
GetReturned(e) == e.op = "getTrends"

\* the step returned from getTrends a result built from the entry it read
GetFromCache(e) == e.op = "getTrends" /\ e.read # NULL

\* age of the entry a getTrends call read, at the instant it read it
ReadAge(e) == e.read.at - e.read.entry.updatedAt

KeyOfMode(sourceBased) == IF sourceBased THEN "true" ELSE "false"

\* refreshTrends invocations of kind `kind` in flight for the key
InFlight(kind, key) ==
  {s \in Slots : /\ tasks[s].pc # "idle"
                 /\ tasks[s].kind = kind
                 /\ KeyOfMode(tasks[s].sourceBased) = key}

\* the pass has consumed every source of its snapshot
PassComplete(t) == t.pc = "finished" /\ t.i = Len(t.active) + 1

\* C1: a getTrends call with forceRefresh, or made when the cache has no
\* entry for the mode, returns only after a complete aggregation pass of its
\* own, and the trend list it returns is the list this pass has just stored
\* in the cache entry of the mode.
C1_ForcedOrMissingRunsPass ==
  (GetReturned(ev) /\ (ev.call.forceRefresh \/ ~ev.call.hadEntry)) =>
     LET entry == cache[KeyOfMode(ev.call.sourceBased)]
     IN /\ ev.read = NULL
        /\ ev.pass # NULL
        /\ ev.pass.kind = "fg"
        /\ ev.pass.sourceBased = ev.call.sourceBased
        /\ PassComplete(ev.pass)
        /\ entry # NULL
        /\ entry.updatedAt = now
        /\ entry.summary.crawlResults = ev.pass.crawlResults
        /\ SameTrends(ev.result.trends, entry.data)

\* a forced call made over an existing entry has returned a non-empty list
C1_Witness ==
  /\ GetReturned(ev)
  /\ ev.call.forceRefresh
  /\ ev.call.hadEntry
  /\ ev.pass # NULL
  /\ Len(ev.result.trends) > 0

\* C2: a getTrends call without forceRefresh, with backgroundIfStale, on a
\* mode whose entry exists and is stale returns in the step of the call the
\* data of the entry it read, and has started a pass for that mode: the pass
\* is suspended before its first crawl, or had nothing to await and is over.
C2_StaleReadReturnsOldAndRefreshes ==
  (GetFromCache(ev) /\ ~ev.call.forceRefresh /\ ev.call.backgroundIfStale
     /\ ReadAge(ev) > DEFAULT_TTL_MS) =>
     /\ ev.read.at = now
     /\ SameTrends(ev.result.trends, ev.read.entry.data)
     /\ ev.result.analysis_summary.last_updated = toISOString(ev.read.entry.updatedAt)
     /\ \/ ev.pass # NULL /\ ev.pass.kind = "bg"
                          /\ ev.pass.sourceBased = ev.call.sourceBased
        \/ \E s \in InFlight("bg", KeyOfMode(ev.call.sourceBased)) :
             /\ tasks[s].pc \in {"crawl", "delay"}
             /\ \A j \in 1..(tasks[s].i - 1) : ~IsCrawlable(tasks[s].active[j])
             /\ Cardinality({r \in Range(tasks[s].crawlResults) : ~r.isMockData}) = 0

\* a stale read has returned the old list while its refresh waits for a crawl
C2_Witness ==
  /\ GetFromCache(ev)
  /\ ~ev.call.forceRefresh
  /\ ev.call.backgroundIfStale
  /\ ReadAge(ev) > DEFAULT_TTL_MS
  /\ Len(ev.result.trends) > 0
  /\ \E s \in InFlight("bg", KeyOfMode(ev.call.sourceBased)) : tasks[s].pc = "crawl"

\* C3: at every moment at most one background refresh per mode is in flight.
C3_OneBackgroundRefreshPerMode ==
  \A key \in CacheKeys : Cardinality(InFlight("bg", key)) <= 1

\* C4: a getTrends call without forceRefresh that reads an entry still within
\* its TTL starts no pass and crawls nothing, and leaves the cache and the
\* source registry as they are.
C4_FreshReadChangesNothing ==
  [][ (GetFromCache(ev') /\ ~ev'.call.forceRefresh /\ ReadAge(ev') <= DEFAULT_TTL_MS)
        => /\ UNCHANGED <<cache, sources, tasks>>
           /\ ev'.pass = NULL
           /\ SameTrends(ev'.result.trends, cache[KeyOfMode(ev'.call.sourceBased)].data) ]_vars

\* a call has read, some time after it was written, an entry that a
\* getTrends call had written, within the TTL
C4_Witness ==
  /\ GetFromCache(ev)
  /\ ~ev.call.forceRefresh
  /\ ReadAge(ev) > 0
  /\ ReadAge(ev) < DEFAULT_TTL_MS
  /\ Len(ev.result.trends) > 0

\* a step in which a refreshTrends invocation started or ended
RefreshStartedOrEnded == tasks' # tasks \/ cache' # cache

\* C5 as claimed: an entry read when now - updatedAt equals the TTL is stale
\* (the read starts a background refresh), and is not stale one millisecond
\* earlier.
C5_StaleAtExactlyTtl ==
  [][ (GetFromCache(ev') /\ ~ev'.call.forceRefresh /\ ev'.call.backgroundIfStale) =>
        /\ (ReadAge(ev') = DEFAULT_TTL_MS => RefreshStartedOrEnded)
        /\ (ReadAge(ev') = DEFAULT_TTL_MS - 1 => ~RefreshStartedOrEnded) ]_vars

\* C5 amended: an entry is stale only when now - updatedAt exceeds the TTL: a
\* read at exactly the TTL, or one millisecond earlier, starts no refresh, and
\* a read one millisecond after the TTL starts one.
C5_StaleOnlyPastTtl ==
  [][ (GetFromCache(ev') /\ ~ev'.call.forceRefresh /\ ev'.call.backgroundIfStale) =>
        /\ (ReadAge(ev') = DEFAULT_TTL_MS     => ~RefreshStartedOrEnded)
        /\ (ReadAge(ev') = DEFAULT_TTL_MS - 1 => ~RefreshStartedOrEnded)
        /\ (ReadAge(ev') = DEFAULT_TTL_MS + 1 => RefreshStartedOrEnded) ]_vars

\* an entry has been read exactly one TTL after it was written
C5_Witness ==
  /\ GetFromCache(ev)
  /\ ev.call.backgroundIfStale
  /\ ~ev.call.forceRefresh
  /\ ReadAge(ev) = DEFAULT_TTL_MS

\* C6: in every step, a cache entry that is created or replaced is the
\* entry of the mode of the pass that ended in the step, and of the call that
\* asked for that pass; the entry of the other mode stays as it is.
C6_CacheIsolation ==
  [][ \A key \in CacheKeys :
        cache'[key] # cache[key] =>
          /\ ev'.pass # NULL
          /\ (key = "true") <=> ev'.pass.sourceBased
          /\ (key = "true") <=> ev'.call.sourceBased
          /\ \A other \in CacheKeys \ {key} : cache'[other] = cache[other] ]_vars

\* a pass has just replaced the entry of one mode while the other mode holds
\* an older entry with other data
C6_Witness ==
  /\ ev.pass # NULL
  /\ cache["true"] # NULL
  /\ cache["false"] # NULL
  /\ cache["true"].data # cache["false"].data
  /\ cache[KeyOfMode(ev.pass.sourceBased)].updatedAt
       > cache[KeyOfMode(~ev.pass.sourceBased)].updatedAt

\* keywords of a sequence of trend records
Keywords(records) == {records[i].keyword : i \in DOMAIN records}

\* sources of a pass for which the loop body pushes no entry (lines 64-85)
Skipped(t) ==
  Count(t.active, LAMBDA src : /\ ~IsCrawlable(src)
                               /\ (t.sourceBased \/ src.type \notin {"RSS", "Twitter"}))

\* C7: the entry of a mode changes only in the step in which a pass for it
\* ends, after the pass has consumed every source of its snapshot, and the
\* new entry is whole (all merged records up to the top 20, the summary of
\* the whole pass); a step that resumes a pass without ending it leaves the
\* cache as it is; and a getTrends call that is served from the cache
\* returns the data of the entry the cache held before the step.
C7_SingleWholeWrite ==
  [][ /\ \A key \in CacheKeys :
           cache'[key] # cache[key] =>
             /\ ev'.pass # NULL
             /\ PassComplete(ev'.pass)
             /\ Len(ev'.pass.crawlResults) >= Len(ev'.pass.active) - Skipped(ev'.pass)
             /\ cache'[key].summary.sourcesAnalyzed = Len(ev'.pass.active)
             /\ cache'[key].summary.crawlResults = ev'.pass.crawlResults
             /\ Keywords(cache'[key].data) \subseteq Keywords(ev'.pass.allTrends)
             /\ Len(cache'[key].data) =
                  (IF Cardinality(Keywords(ev'.pass.allTrends)) < TOP_N
                     THEN Cardinality(Keywords(ev'.pass.allTrends)) ELSE TOP_N)
      /\ \A s \in Slots :
           (tasks[s].pc # "idle" /\ tasks'[s].pc # "idle" /\ tasks'[s] # tasks[s])
             => cache' = cache
      /\ GetFromCache(ev') =>
           /\ ev'.read.entry = cache[KeyOfMode(ev'.call.sourceBased)]
           /\ SameTrends(ev'.result.trends, cache[KeyOfMode(ev'.call.sourceBased)].data) ]_vars

\* a call is served from the entry of a mode while a pass for that mode is
\* suspended with the records of a source already collected
C7_Witness ==
  /\ GetFromCache(ev)
  /\ \E s \in Slots :
       /\ tasks[s].pc = "delay"
       /\ tasks[s].sourceBased = ev.call.sourceBased
       /\ tasks[s].allTrends # <<>>
       /\ Keywords(tasks[s].allTrends) # Keywords(ev.read.entry.data)

\* no two records of the list have keywords that are equal without regard to case
NoDuplicateKeywords(records) ==
  \A i, j \in DOMAIN records :
    i # j => toLowerCase(records[i].keyword) # toLowerCase(records[j].keyword)

\* the step returned a response of getTrends or refreshTrends
Returned(e) == e.op \in {"getTrends", "refreshTrends"}

\* C8: no cache entry and no returned trend list has two records whose
\* keywords are equal when compared case-insensitively.
C8_NoDuplicateKeywords ==
  /\ \A key \in CacheKeys : cache[key] # NULL => NoDuplicateKeywords(cache[key].data)
  /\ Returned(ev) => NoDuplicateKeywords(ev.result.trends)

\* a pass in which two sources reported the same keyword has ended
C8_Witness ==
  /\ Returned(ev)
  /\ ev.pass # NULL
  /\ \E i, j \in DOMAIN ev.pass.allTrends :
       i # j /\ ev.pass.allTrends[i].keyword = ev.pass.allTrends[j].keyword

\* the per-source records of a pass that carry the keyword, in the order seen
WithKeyword(records, k) == SelectSeq(records, LAMBDA r : r.keyword = k)

\* C9: when a pass ends, every record of the entry it stores has as mentions
\* the sum of the mentions, and as volume the sum of the volumes, of all
\* per-source records of the pass with its keyword, and the category and
\* growth of the first of them.
C9_MergeSums ==
  ev.pass # NULL =>
    LET data == cache[KeyOfMode(ev.pass.sourceBased)].data
    IN \A i \in DOMAIN data :
         LET same == WithKeyword(ev.pass.allTrends, data[i].keyword)
         IN /\ same # <<>>
            /\ data[i].mentions = SumSeq([n \in DOMAIN same |-> same[n].mentions])
            /\ data[i].volume   = SumSeq([n \in DOMAIN same |-> same[n].volume])
            /\ data[i].category = same[1].category
            /\ data[i].growth   = same[1].growth

\* a pass has ended in which two sources reported one keyword with different
\* growth and mentions, and the keyword is in the stored entry
C9_Witness ==
  /\ ev.pass # NULL
  /\ \E r \in Range(cache[KeyOfMode(ev.pass.sourceBased)].data) :
       LET same == WithKeyword(ev.pass.allTrends, r.keyword)
       IN /\ Len(same) >= 2
          /\ same[1].growth # same[2].growth
          /\ same[1].mentions # same[2].mentions
          /\ r.mentions = same[1].mentions + same[2].mentions

\* C10: no cache entry and no returned trend list has more than 20 records.
C10_AtMostTopN ==
  /\ \A key \in CacheKeys : cache[key] # NULL => Len(cache[key].data) <= TOP_N
  /\ Returned(ev) => Len(ev.result.trends) <= TOP_N

\* a pass that extracted more than 20 distinct keywords has ended
C10_Witness ==
  /\ Returned(ev)
  /\ ev.pass # NULL
  /\ Cardinality(Keywords(ev.pass.allTrends)) > TOP_N
  /\ Len(ev.result.trends) = TOP_N

\* the list is ordered by mentions, largest first
SortedByMentions(records) ==
  \A i \in DOMAIN records :
    i < Len(records) => records[i].mentions >= records[i + 1].mentions

\* mentions of a keyword over all per-source records of a pass
TotalMentions(records, k) ==
  LET same == WithKeyword(records, k)
  IN SumSeq([n \in DOMAIN same |-> same[n].mentions])

\* keywords the pass extracted that the stored entry does not hold
Dropped(t) == Keywords(t.allTrends) \ Keywords(cache[KeyOfMode(t.sourceBased)].data)

\* C11: every cache entry and every returned trend list is ordered by
\* mentions, non-increasing, and when a pass ends, no keyword it extracted
\* and the stored entry lacks has more mentions than a record of the entry.
C11_SortedAndTopKept ==
  /\ \A key \in CacheKeys : cache[key] # NULL => SortedByMentions(cache[key].data)
  /\ Returned(ev) => SortedByMentions(ev.result.trends)
  /\ ev.pass # NULL =>
       \A k \in Dropped(ev.pass) :
         \A r \in Range(cache[KeyOfMode(ev.pass.sourceBased)].data) :
           TotalMentions(ev.pass.allTrends, k) <= r.mentions

\* a pass has ended that dropped a keyword, and its list holds records with
\* different mentions
C11_Witness ==
  /\ Returned(ev)
  /\ ev.pass # NULL
  /\ Dropped(ev.pass) # {}
  /\ Len(ev.result.trends) = TOP_N
  /\ ev.result.trends[1].mentions > ev.result.trends[TOP_N].mentions

Processed(source, sourceBased) ==
  IsCrawlable(source) \/ (~sourceBased /\ source.type \in {"RSS", "Twitter"})

\* the step of the source throws inside the try of line 46
Throws(source, sourceBased) ==
  Processed(source, sourceBased) /\ "updateLastCrawled" \notin StoreExports

\* the per-source entries of the pass for the source with the status
EntriesOf(t, source, status) ==
  SelectSeq(t.crawlResults,
            LAMBDA r : r.source = source.name /\ r.type = source.type /\ r.status = status)

\* the per-source entries of the pass with status 'success'
Successes(t) == SelectSeq(t.crawlResults, LAMBDA r : r.status = "success")

\* C13: when a pass in which the step of an active source threw ends, it has
\* gone through every source of its snapshot: each source whose step threw
\* has a 'failed' entry, each source the loop handles (the later ones
\* included) has its entry and its records in the pass, the merged list is
\* made of all these records, the cache entry of the mode is the one of this
\* pass, and sourcesAnalyzed counts every active source.
C13_ThrowDoesNotAbortPass ==
  (ev.pass # NULL /\ \E j \in DOMAIN ev.pass.active :
                       Throws(ev.pass.active[j], ev.pass.sourceBased)) =>
    LET t     == ev.pass
        entry == cache[KeyOfMode(t.sourceBased)]
    IN /\ PassComplete(t)
       /\ \A j \in DOMAIN t.active :
            /\ Throws(t.active[j], t.sourceBased) => EntriesOf(t, t.active[j], "failed") # <<>>
            /\ Processed(t.active[j], t.sourceBased) => EntriesOf(t, t.active[j], "success") # <<>>
       /\ Len(t.allTrends) =
            SumSeq([n \in DOMAIN Successes(t) |-> Successes(t)[n].trendsExtracted])
       /\ Cardinality(Keywords(t.allTrends)) <= TOP_N =>
            Keywords(entry.data) = Keywords(t.allTrends)
       /\ entry # NULL
       /\ entry.updatedAt = now
       /\ entry.summary.crawlResults = t.crawlResults
       /\ entry.summary.sourcesAnalyzed = Len(t.active)
       /\ ev.read = NULL => ev.result.analysis_summary.sources_analyzed = Len(t.active)

\* a pass has ended in which the step of the first of two sources threw and
\* the second source delivered its records
C13_Witness ==
  /\ ev.pass # NULL
  /\ Len(ev.pass.active) >= 2
  /\ Throws(ev.pass.active[1], ev.pass.sourceBased)
  /\ EntriesOf(ev.pass, ev.pass.active[1], "failed") # <<>>
  /\ EntriesOf(ev.pass, ev.pass.active[2], "success") # <<>>
  /\ "research" \in Keywords(cache[KeyOfMode(ev.pass.sourceBased)].data)

\* the per-source entries of the pass whose records came from mock data
MockContributions(t) ==
  SelectSeq(t.crawlResults,
            LAMBDA r : r.status = "success" /\ r.isMockData /\ r.trendsExtracted > 0)

\* C14: when a pass in source-restricted mode ends, no record of its trend
\* list comes from mock data (the crawler's fallback data included), and
\* realDataSources counts no source whose data was mock.
C14_SourceBasedHasNoMockData ==
  (ev.pass # NULL /\ ev.pass.sourceBased) =>
    /\ MockContributions(ev.pass) = <<>>
    /\ cache["true"].summary.realDataSources =
         Cardinality({i \in DOMAIN ev.pass.crawlResults :
                        /\ ev.pass.crawlResults[i].status = "success"
                        /\ ~ev.pass.crawlResults[i].isMockData})

\* the per-source entries of the pass for the source that are marked as mock
\* and carry records
MockEntriesOf(t, source) ==
  SelectSeq(EntriesOf(t, source, "success"),
            LAMBDA r : r.isMockData /\ r.trendsExtracted > 0)

\* C15: when a pass ends, every active source of it that is not crawlable
\* has, in permissive mode, a per-source entry marked as mock with its mock
\* records, and in source-restricted mode no entry and no records.
C15_NonCrawlableSourcesGetMockData ==
  ev.pass # NULL =>
    \A j \in DOMAIN ev.pass.active :
      LET source == ev.pass.active[j]
      IN ~IsCrawlable(source) =>
           IF ev.pass.sourceBased
             THEN /\ EntriesOf(ev.pass, source, "success") = <<>>
                  /\ EntriesOf(ev.pass, source, "failed") = <<>>
             ELSE MockEntriesOf(ev.pass, source) # <<>>

\* the step ended a refreshTrends invocation by a rejection
Rejected(e) == e.pass # NULL /\ e.pass.pc = "rejected"

\* C16: a step in which the pass of a getTrends or refreshTrends call ends
\* with an exception from the enumeration of the sources or from the merge
\* rejects the call, the HTTP layer answers 500 with its generic message,
\* and the step leaves the cache entries of both modes as they were; the
\* steps that resume a pass without ending it leave the cache as it was.
C16_AggregationErrorLeavesCache ==
  [][ /\ (Rejected(ev') /\ ev'.pass.kind \in {"fg", "post"}) =>
           /\ ev'.op \in {"getTrendsRejected", "refreshTrendsRejected"}
           /\ HttpResponse(ev').status = 500
           /\ HttpResponse(ev').body.error.message \in
                {"Failed to retrieve trend data", "Failed to refresh trends data"}
           /\ cache' = cache
      /\ \A s \in Slots :
           (tasks[s].pc # "idle" /\ tasks'[s].pc # "idle" /\ tasks'[s] # tasks[s])
             => cache' = cache ]_vars

\* a forced getTrends call has been rejected by a throw of the merge while
\* both modes hold an entry
C16_Witness ==
  /\ ev.op = "getTrendsRejected"
  /\ ev.pass.fault = "merge"
  /\ Len(ev.pass.allTrends) > 0
  /\ cache["true"] # NULL
  /\ cache["false"] # NULL

\* C17: a getTrends call served from the cache gets 200 and the data of the
\* entry it read, also when the background refresh it started is rejected in
\* the same step; a step in which a background refresh is rejected gives no
\* HTTP client an error and leaves the cache entries as they were.
C17_BackgroundFailureIsContained ==
  [][ /\ GetFromCache(ev') =>
           /\ HttpResponse(ev').status = 200
           /\ SameTrends(ev'.result.trends, ev'.read.entry.data)
           /\ ev'.read.entry = cache[KeyOfMode(ev'.call.sourceBased)]
      /\ (Rejected(ev') /\ ev'.pass.kind = "bg") =>
           /\ ev'.op \in {"getTrends", "backgroundRejected"}
           /\ ev'.op = "backgroundRejected" => HttpResponse(ev') = NULL
           /\ cache' = cache ]_vars

\* a background refresh has been rejected by a throw of the merge, after
\* its crawl, while the entry of its mode is in the cache
C17_Witness ==
  /\ ev.op = "backgroundRejected"
  /\ ev.pass.fault = "merge"
  /\ Len(ev.pass.allTrends) > 0
  /\ cache[KeyOfMode(ev.pass.sourceBased)] # NULL

\* the step answered a GET /analytics/trends request
GetAnswered(e) == e.op \in {"getTrends", "getTrendsRejected"}

AllSourcesFailed(t) ==
  /\ Len(t.active) > 0
  /\ \A j \in DOMAIN t.active : EntriesOf(t, t.active[j], "failed") # <<>>

\* a pass of which every source failed ends in the step, and the cache held
\* an entry of its mode
TotalFailureOverEntry ==
  /\ ev'.pass # NULL
  /\ AllSourcesFailed(ev'.pass)
  /\ cache[KeyOfMode(ev'.pass.sourceBased)] # NULL

PassStep(slot) ==
  \/ \E c \in FewCrawlInputs : ResumeCrawl(slot, c.outcome, c.seed)
  \/ ResumeDelay(slot)

\* C20: a pass whose per-source crawl never returns is cut off: some step of
\* the pass is still to come (the timeout that counts the crawl as a failure
\* of that source and lets the remaining sources be processed), so the pass
\* can complete and write the cache.
C20_HangingCrawlIsCutOff ==
  \A s \in Slots : tasks[s].pc = "hung" => ENABLED PassStep(s)

\* the registry has no source with status 'active'
NoActiveSource(registry) == \A i \in DOMAIN registry : registry[i].status # "active"

\* the step is the call of getTrends or refreshTrends that starts a pass
PassStarted == budget'.passes < budget.passes

\* C21: a refresh started, in either mode, when the registry has no active
\* source throws nothing and ends in the step of the call: it returns an
\* empty trend list with trends_count 0 and sources_analyzed 0, and the
\* entry of the mode is the entry of this pass, with an empty trend list.
C21_NoActiveSourcesGivesEmpty ==
  [][ (PassStarted /\ NoActiveSource(sources)) =>
        LET entry == cache'[KeyOfMode(ev'.call.sourceBased)]
        IN /\ Returned(ev')
           /\ ev'.pass # NULL
           /\ ev'.pass.pc = "finished"
           /\ ev'.pass.crawlResults = <<>>
           /\ ev'.read = NULL =>
                /\ ev'.result.trends = <<>>
                /\ ev'.result.trends_count = 0
                /\ ev'.result.analysis_summary.sources_analyzed = 0
           /\ entry # NULL
           /\ entry.data = <<>>
           /\ entry.updatedAt = now'
           /\ entry.summary.sourcesAnalyzed = 0 ]_vars

\* refreshTrends has returned from a pass over a registry that holds
\* sources, none of them active
C21_Witness ==
  /\ ev.op = "refreshTrends"
  /\ ev.pass # NULL
  /\ ev.pass.active = <<>>
  /\ sources # <<>>
  /\ NoActiveSource(sources)
  /\ ev.result.trends_count = 0
  /\ cache[KeyOfMode(ev.call.sourceBased)].data = <<>>

\* C22: at process start neither mode has an entry; the cache has exactly
\* one place per mode; an entry appears in the place of a mode only in the
\* step in which a pass for that mode ends after going through all its
\* sources, and it is the entry of this pass; and a mode that has an entry
\* has one after every step, whatever the step does (a rejected refresh
\* included).
C22_CacheLifecycle ==
  /\ \A key \in CacheKeys : cache[key] = NULL
  /\ [][ /\ DOMAIN cache' = CacheKeys
         /\ \A key \in CacheKeys :
              (cache[key] = NULL /\ cache'[key] # NULL) =>
                /\ ev'.pass # NULL
                /\ PassComplete(ev'.pass)
                /\ KeyOfMode(ev'.pass.sourceBased) = key
                /\ cache'[key].summary.crawlResults = ev'.pass.crawlResults
                /\ cache'[key].updatedAt = now'
         /\ \A key \in CacheKeys : cache[key] # NULL => cache'[key] # NULL ]_vars

\* the last pass of the behaviour has ended and written the entry of its
\* mode, more than a TTL after the entry of the other mode was written, and
\* the entry of the other mode is still there
C22_Witness ==
  /\ ev.pass # NULL
  /\ PassComplete(ev.pass)
  /\ budget.passes = 0
  /\ cache["true"] # NULL
  /\ cache["false"] # NULL
  /\ cache[KeyOfMode(ev.pass.sourceBased)].updatedAt
       > cache[KeyOfMode(~ev.pass.sourceBased)].updatedAt + DEFAULT_TTL_MS

\* the texts that spell 'true' in some letter case
TrueSpellings == {"true", "TRUE", "True"}

\* the mode the claim gives to a query value
ClaimedMode(value) == value.present /\ value.text \in TrueSpellings

\* the slot holds the pass of a POST refresh-trends request for the mode
PostPassFor(t, value) ==
  /\ t.pc # "idle"
  /\ t.kind = "post"
  /\ t.call.query = value
  /\ t.sourceBased = ClaimedMode(value)

\* C23: a POST refresh-trends request, whatever its source_based value and
\* whether or not the entry of the mode is still fresh, starts an
\* aggregation pass for the mode that is true exactly when the value spells
\* 'true' in some letter case; when that pass ends it has gone through all
\* its sources, the entry of that mode is the entry of this pass, and the
\* request is answered 200 with the list of this entry.
C23_PostAlwaysRefreshes ==
  [][ /\ \A q \in QueryValues :
           (PassStarted /\ \E s \in Slots : tasks[s].pc = "idle" /\ tasks'[s].pc # "idle"
                                              /\ tasks'[s].call.query = q)
             => \E s \in Slots : PostPassFor(tasks'[s], q)
      /\ ev'.op = "refreshTrends" =>
           LET entry == cache'[KeyOfMode(ClaimedMode(ev'.call.query))]
           IN /\ ev'.pass.sourceBased = ClaimedMode(ev'.call.query)
              /\ PassComplete(ev'.pass)
              /\ entry.updatedAt = now'
              /\ entry.summary.crawlResults = ev'.pass.crawlResults
              /\ HttpResponse(ev').status = 200
              /\ SameTrends(HttpResponse(ev').body.trends, entry.data) ]_vars

\* a request with the value 'TRUE', made over a fresh entry of the
\* source-restricted mode written at an earlier instant, has been answered
C23_Witness ==
  /\ ev.op = "refreshTrends"
  /\ ev.call.query = Given("TRUE")
  /\ ev.call.overFresh
  /\ cache["true"].updatedAt = now
  /\ now > DEFAULT_TTL_MS

\* the registry holds the source with a lastCrawled other than the one the
\* pass saw when it read the registry
MarkedSince(registry, source) ==
  \E i \in DOMAIN registry :
    registry[i].id = source.id /\ registry[i].lastCrawled # source.lastCrawled

\* C24: when a pass ends, the sources of it that the registry shows as
\* crawled during the pass are exactly the sources whose crawl succeeded
\* (with real or mock data), and each of them has a 'success' entry and no
\* 'failed' entry in the summary of the pass.
C24_SucceededSourcesAreMarked ==
  ev.pass # NULL =>
    \A j \in DOMAIN ev.pass.active :
      LET source == ev.pass.active[j]
      IN /\ EntriesOf(ev.pass, source, "success") # <<>> => MarkedSince(sources, source)
         /\ MarkedSince(sources, source) =>
              /\ EntriesOf(ev.pass, source, "success") # <<>>
              /\ EntriesOf(ev.pass, source, "failed") = <<>>

\* the records cut into consecutive lists of the given lengths
RECURSIVE Chunks(_, _)
Chunks(records, counts) ==
  IF counts = <<>> THEN <<>>
  ELSE <<SubSeq(records, 1, Head(counts))>>
         \o Chunks(SubSeq(records, Head(counts) + 1, Len(records)), Tail(counts))

\* the record lists of the pass, one per source that delivered records
PerSource(t) ==
  Chunks(t.allTrends, [n \in DOMAIN Successes(t) |-> Successes(t)[n].trendsExtracted])

\* the orders in which n sources can be processed
Orders(n) == {f \in [1..n -> 1..n] : \A i, j \in 1..n : f[i] = f[j] => i = j}

\* the trend list of a pass that processes the sources in the order f
MergedIn(lists, f) == combineTrends(<<Flatten([i \in DOMAIN lists |-> lists[f[i]]])>>)

\* the pass ended in the step after going through all its sources
PassEnded(e) == e.pass # NULL /\ e.pass.pc = "finished"

\* C25 as claimed: when a pass ends, the trend list it stores has the same
\* records (keyword, mentions, volume, category, growth) as the list of a
\* pass that processes the same per-source lists in any other order.
C25_MergeIsOrderIndependent ==
  PassEnded(ev) =>
    LET lists == PerSource(ev.pass)
        data  == cache[KeyOfMode(ev.pass.sourceBased)].data
    IN \A f \in Orders(Len(lists)) : Range(MergedIn(lists, f)) = Range(data)

\* C25 amended: the sums are order-independent, growth and category are
\* not.  When a pass ends, the list of a pass that processes the same
\* per-source lists in another order has the same length and the same
\* mentions position by position; a keyword that is in both lists has the
\* same mentions and volume in both; and when the pass extracted at most 20
\* distinct keywords both lists hold the same keywords.  Growth and category
\* are those of the record processed first, and among keywords with equal
\* mentions the order, and the membership at the cut, follow the order of
\* processing.
C25_SumsAreOrderIndependent ==
  PassEnded(ev) =>
    LET lists == PerSource(ev.pass)
        data  == cache[KeyOfMode(ev.pass.sourceBased)].data
    IN \A f \in Orders(Len(lists)) :
         LET other == MergedIn(lists, f)
         IN /\ Len(other) = Len(data)
            /\ \A i \in DOMAIN data : other[i].mentions = data[i].mentions
            /\ \A i \in DOMAIN data, j \in DOMAIN other :
                 other[j].keyword = data[i].keyword =>
                   /\ other[j].mentions = data[i].mentions
                   /\ other[j].volume = data[i].volume
            /\ Cardinality(Keywords(ev.pass.allTrends)) <= TOP_N =>
                 Keywords(other) = Keywords(data)

\* a pass has ended in which two sources delivered a keyword with different
\* mentions, and the other order of the two gives the keyword another growth
C25_Witness ==
  /\ PassEnded(ev)
  /\ Len(PerSource(ev.pass)) = 2
  /\ LET lists == PerSource(ev.pass)
         data  == cache[KeyOfMode(ev.pass.sourceBased)].data
         other == MergedIn(lists, <<2, 1>>)
     IN \E i \in DOMAIN data, j \in DOMAIN other :
          /\ other[j].keyword = data[i].keyword
          /\ other[j].growth # data[i].growth
          /\ other[j].mentions = data[i].mentions
          /\ Len(WithKeyword(lists[1], data[i].keyword)) = 1
          /\ Len(WithKeyword(lists[2], data[i].keyword)) = 1
          /\ lists[1][1].mentions # lists[2][1].mentions

\* how far a pass in flight has come: the sources it has left behind, and
\* within a source whether it has reached the pacing delay
Progress(t) == 2 * t.i + (IF t.pc = "delay" THEN 1 ELSE 0)

C27_UpdatedAtNeverDecreases ==
  [][ \A key \in CacheKeys :
        cache[key] # NULL =>
          /\ cache'[key] # NULL
          /\ cache'[key].updatedAt >= cache[key].updatedAt ]_vars

\* a foreground pass has replaced, at a later instant, an older entry of
\* its mode while a background pass for the same mode is still in flight
C27_Witness ==
  /\ PassEnded(ev)
  /\ ev.pass.kind = "fg"
  /\ ev.call.hadEntry
  /\ cache[KeyOfMode(ev.pass.sourceBased)].updatedAt = now
  /\ now > DEFAULT_TTL_MS
  /\ InFlight("bg", KeyOfMode(ev.pass.sourceBased)) # {}

\* the sources of the registry with status 'active', in registry order
ActiveIn(registry) == SelectSeq(registry, LAMBDA src : src.status = "active")

\* the per-source entries of the pass are entries of sources of the list
EntriesAreOf(t, list) ==
  \A n \in DOMAIN t.crawlResults :
    \E j \in DOMAIN list : /\ t.crawlResults[n].source = list[j].name
                            /\ t.crawlResults[n].type = list[j].type

\* C28: a pass works on the sources that were active when it started.  The
\* list a pass starts with is the list of the sources active in the registry
\* at that step; no later step changes the list, whatever has been done to
\* the registry in between; and when the pass ends, the sources it has
\* entries for are sources of this list, every source of the list that the
\* loop handles has its entry, and sourcesAnalyzed (and sources_analyzed in
\* the response of the pass) is the length of the list.
C28_PassWorksOnItsSnapshot ==
  [][ /\ \A s \in Slots :
           /\ (tasks[s].pc = "idle" /\ tasks'[s].pc # "idle") =>
                tasks'[s].active = ActiveIn(sources)
           /\ (tasks[s].pc # "idle" /\ tasks'[s].pc # "idle") =>
                tasks'[s].active = tasks[s].active
           /\ (tasks[s].pc # "idle" /\ tasks'[s].pc = "idle") =>
                /\ ev'.pass # NULL
                /\ ev'.pass.active = tasks[s].active
      /\ (PassStarted /\ ev'.pass # NULL) => ev'.pass.active = ActiveIn(sources)
      /\ PassEnded(ev') =>
           LET t == ev'.pass
           IN /\ EntriesAreOf(t, t.active)
              /\ \A j \in DOMAIN t.active :
                   Processed(t.active[j], t.sourceBased) =>
                     EntriesOf(t, t.active[j], "success") # <<>>
              /\ cache'[KeyOfMode(t.sourceBased)].summary.sourcesAnalyzed = Len(t.active)
              /\ ev'.read = NULL =>
                   ev'.result.analysis_summary.sources_analyzed = Len(t.active) ]_vars

\* a pass has ended after the registry was changed under it: a source it
\* crawled is no longer active, and the number of sources it reports is not
\* the number of sources active now
C28_Witness ==
  /\ PassEnded(ev)
  /\ ev.read = NULL
  /\ \E j \in DOMAIN ev.pass.active :
       /\ IsCrawlable(ev.pass.active[j])
       /\ EntriesOf(ev.pass, ev.pass.active[j], "success") # <<>>
       /\ \A i \in DOMAIN ActiveIn(sources) : ActiveIn(sources)[i].id # ev.pass.active[j].id
  /\ ev.result.analysis_summary.sources_analyzed # Len(ActiveIn(sources))

\* positions of the sources of the pass that have an entry, in the order of
\* the entries
RECURSIVE AttemptOrder(_, _)
AttemptOrder(t, n) ==
  IF n > Len(t.crawlResults) THEN <<>>
  ELSE <<CHOOSE j \in DOMAIN t.active :
           /\ t.active[j].name = t.crawlResults[n].source
           /\ t.active[j].type = t.crawlResults[n].type>> \o AttemptOrder(t, n + 1)

\* C29: when a pass ends, each source of it has at most one per-source
\* entry, with status 'success' or 'failed'; the entries are in the order in
\* which the sources were attempted; the entries are no more than the
\* sources analysed, and the real-data sources no more than the successes.
C29_OneEntryPerSource ==
  PassEnded(ev) =>
    LET t == ev.pass
        summary == cache[KeyOfMode(t.sourceBased)].summary
    IN /\ EntriesAreOf(t, t.active)
       /\ \A n \in DOMAIN t.crawlResults : t.crawlResults[n].status \in {"success", "failed"}
       /\ \A j \in DOMAIN t.active :
            Len(EntriesOf(t, t.active[j], "success"))
              + Len(EntriesOf(t, t.active[j], "failed")) <= 1
       /\ \A n \in DOMAIN t.crawlResults :
            n < Len(t.crawlResults) => AttemptOrder(t, 1)[n] < AttemptOrder(t, 1)[n + 1]
       /\ Len(summary.crawlResults) <= summary.sourcesAnalyzed
       /\ summary.realDataSources <= summary.successCount

\* C30: a getTrends call without forceRefresh and without backgroundIfStale
\* that reads an entry older than its TTL starts no pass, leaves the cache,
\* the source registry and the passes in flight as they are, and returns
\* the data and the timestamp of the stale entry.
C30_StaleReadWithoutBackground ==
  [][ (GetFromCache(ev') /\ ~ev'.call.forceRefresh /\ ~ev'.call.backgroundIfStale
         /\ ReadAge(ev') > DEFAULT_TTL_MS) =>
        /\ UNCHANGED <<cache, sources, tasks, budget>>
        /\ ev'.pass = NULL
        /\ ev'.read.entry = cache[KeyOfMode(ev'.call.sourceBased)]
        /\ SameTrends(ev'.result.trends, cache[KeyOfMode(ev'.call.sourceBased)].data)
        /\ ev'.result.analysis_summary.last_updated =
             toISOString(cache[KeyOfMode(ev'.call.sourceBased)].updatedAt) ]_vars

\* a call without backgroundIfStale has returned the non-empty list of an
\* entry older than its TTL, while a pass could have been started
C30_Witness ==
  /\ GetFromCache(ev)
  /\ ~ev.call.forceRefresh
  /\ ~ev.call.backgroundIfStale
  /\ ReadAge(ev) > DEFAULT_TTL_MS
  /\ Len(ev.result.trends) > 0
  /\ budget.passes > 0
  /\ FreeSlots # {}

====
